---- MODULE Spec2Model ----
(***************************************************************************)
(* Janggi engine: JanggiGame (Main.py), JanggiBoard (Board.py) and the     *)
(* board pieces (BoardPieces.py).                                          *)
(*                                                                         *)
(* A coordinate is the pair <<row, column>> with row an integer and column *)
(* a one-letter string, as the tuples (row, column) of the source.  A cell *)
(* of the grid holds the identity of a piece object (1..32, in the order   *)
(* pieces_generator creates them) or None (0).  A piece object's own       *)
(* _current_pos is kept apart from the grid, as in the source.             *)
(*                                                                         *)
(* A coordinate string of make_move is a sequence of one-character         *)
(* strings: "a10" is <<"a", "1", "0">>.                                     *)
(***************************************************************************)
EXTENDS Integers, Sequences, FiniteSets, TLC

None == 0

\* self._alphabet = 'abcdefghi'
alphabet == <<"a", "b", "c", "d", "e", "f", "g", "h", "i">>

Columns == {alphabet[i] : i \in 1..9}

Rows == 1..10

\* self._alphabet.index(column), 0-based as in Python
alphabet_index == [a |-> 0, b |-> 1, c |-> 2, d |-> 3, e |-> 4, f |-> 5, g |-> 6, h |-> 7, i |-> 8]

\* self._alphabet[i] with Python's indexing: a negative index counts from
\* the end; an index above 8 raises IndexError (see get_movement_range_raises)
alphabet_at(i) == IF i < 0 THEN alphabet[i + 10] ELSE alphabet[i + 1]

\* the keys of the dictionary of dictionaries self._board
ValidKey(coordinates) ==
    /\ coordinates[1] \in Rows
    /\ coordinates[2] \in Columns

\* the cells in the order "for row in self._board.values(): for item in row.values()"
Cells == [k \in 1..90 |-> <<((k - 1) \div 9) + 1, alphabet[((k - 1) % 9) + 1]>>]

CellSet == {Cells[k] : k \in 1..90}

red_palace == {<<1, "d">>, <<1, "e">>, <<1, "f">>,
               <<2, "d">>, <<2, "e">>, <<2, "f">>,
               <<3, "d">>, <<3, "e">>, <<3, "f">>}

blue_palace == {<<8, "d">>, <<8, "e">>, <<8, "f">>,
                <<9, "d">>, <<9, "e">>, <<9, "f">>,
                <<10, "d">>, <<10, "e">>, <<10, "f">>}

\* pieces_generator: the 32 piece objects in creation order, each with its
\* colour, its name and the square it is created on
pieces_generator ==
    << [color |-> "RED", name |-> "CHARIOT", at |-> <<1, "a">>],
       [color |-> "RED", name |-> "ELEPHANT", at |-> <<1, "b">>],
       [color |-> "RED", name |-> "HORSE", at |-> <<1, "c">>],
       [color |-> "RED", name |-> "GUARD", at |-> <<1, "d">>],
       [color |-> "RED", name |-> "GUARD", at |-> <<1, "f">>],
       [color |-> "RED", name |-> "ELEPHANT", at |-> <<1, "g">>],
       [color |-> "RED", name |-> "HORSE", at |-> <<1, "h">>],
       [color |-> "RED", name |-> "CHARIOT", at |-> <<1, "i">>],
       [color |-> "RED", name |-> "GENERAL", at |-> <<2, "e">>],
       [color |-> "RED", name |-> "CANNON", at |-> <<3, "b">>],
       [color |-> "RED", name |-> "CANNON", at |-> <<3, "h">>],
       [color |-> "RED", name |-> "SOLDIER", at |-> <<4, "a">>],
       [color |-> "RED", name |-> "SOLDIER", at |-> <<4, "c">>],
       [color |-> "RED", name |-> "SOLDIER", at |-> <<4, "e">>],
       [color |-> "RED", name |-> "SOLDIER", at |-> <<4, "g">>],
       [color |-> "RED", name |-> "SOLDIER", at |-> <<4, "i">>],
       [color |-> "BLUE", name |-> "SOLDIER", at |-> <<7, "a">>],
       [color |-> "BLUE", name |-> "SOLDIER", at |-> <<7, "c">>],
       [color |-> "BLUE", name |-> "SOLDIER", at |-> <<7, "e">>],
       [color |-> "BLUE", name |-> "SOLDIER", at |-> <<7, "g">>],
       [color |-> "BLUE", name |-> "SOLDIER", at |-> <<7, "i">>],
       [color |-> "BLUE", name |-> "CANNON", at |-> <<8, "b">>],
       [color |-> "BLUE", name |-> "CANNON", at |-> <<8, "h">>],
       [color |-> "BLUE", name |-> "GENERAL", at |-> <<9, "e">>],
       [color |-> "BLUE", name |-> "CHARIOT", at |-> <<10, "a">>],
       [color |-> "BLUE", name |-> "ELEPHANT", at |-> <<10, "b">>],
       [color |-> "BLUE", name |-> "HORSE", at |-> <<10, "c">>],
       [color |-> "BLUE", name |-> "GUARD", at |-> <<10, "d">>],
       [color |-> "BLUE", name |-> "GUARD", at |-> <<10, "f">>],
       [color |-> "BLUE", name |-> "ELEPHANT", at |-> <<10, "g">>],
       [color |-> "BLUE", name |-> "HORSE", at |-> <<10, "h">>],
       [color |-> "BLUE", name |-> "CHARIOT", at |-> <<10, "i">>] >>

PieceIds == 1..32

\* BoardPiece.get_color
get_color(piece) == pieces_generator[piece].color

\* "KIND" in piece.get_name(): the name is color + " " + kind, and no colour
\* contains the name of a kind
name_has(piece, kind) == pieces_generator[piece].name = kind

\* BoardPiece.is_general / General.is_general
is_general(piece) == pieces_generator[piece].name = "GENERAL"

Opposite(color) == IF color = "BLUE" THEN "RED" ELSE "BLUE"

\* a list holding x when cond holds, the "if cond: movement_range.append(x)"
Opt(cond, x) == IF cond THEN <<x>> ELSE << >>

InSeq(x, s) == \E k \in 1..Len(s) : s[k] = x

(***************************************************************************)
(* BoardPieces.py: the raw movement ranges                                 *)
(***************************************************************************)

\* General.get_movement_range and Guard.get_movement_range (the same code)
palace_piece_range(color, current) ==
    LET current_row == current[1]
        current_column == current[2]
        current_column_index == alphabet_index[current_column]
    IN  Opt(current_row - 1 > 0, <<current_row - 1, current_column>>)
        \o Opt(current_row + 1 <= 10, <<current_row + 1, current_column>>)
        \o << <<current_row, alphabet_at(current_column_index + 1)>> >>
        \o << <<current_row, alphabet_at(current_column_index - 1)>> >>
        \o (IF color = "BLUE"
            THEN Opt(current = <<8, "d">> \/ current = <<8, "f">>, <<9, "e">>)
                 \o (IF current = <<9, "e">>
                     THEN << <<8, "d">>, <<8, "f">>, <<10, "d">>, <<10, "f">> >>
                     ELSE << >>)
                 \o Opt(current = <<10, "d">> \/ current = <<10, "f">>, <<9, "e">>)
            ELSE << >>)
        \o (IF color = "RED"
            THEN Opt(current = <<3, "d">> \/ current = <<3, "f">>, <<2, "e">>)
                 \o (IF current = <<2, "e">>
                     THEN << <<1, "d">>, <<1, "f">>, <<3, "d">>, <<3, "f">> >>
                     ELSE << >>)
                 \o Opt(current = <<1, "d">> \/ current = <<1, "f">>, <<2, "e">>)
            ELSE << >>)

\* Horse.get_movement_range
horse_range(current) ==
    LET current_row == current[1]
        ci == alphabet_index[current[2]]
    IN  (IF current_row + 2 <= 10
         THEN Opt(ci + 1 <= 8, <<current_row + 2, alphabet_at(ci + 1)>>)
              \o Opt(ci - 1 >= 0, <<current_row + 2, alphabet_at(ci - 1)>>)
         ELSE << >>)
        \o (IF current_row - 2 > 0
            THEN Opt(ci + 1 <= 8, <<current_row - 2, alphabet_at(ci + 1)>>)
                 \o Opt(ci - 1 >= 0, <<current_row - 2, alphabet_at(ci - 1)>>)
            ELSE << >>)
        \o (IF ci + 2 <= 8
            THEN Opt(current_row + 1 <= 10, <<current_row + 1, alphabet_at(ci + 2)>>)
                 \o Opt(current_row - 1 > 0, <<current_row - 1, alphabet_at(ci + 2)>>)
            ELSE << >>)
        \o (IF ci - 2 >= 0
            THEN Opt(current_row + 1 <= 10, <<current_row + 1, alphabet_at(ci - 2)>>)
                 \o Opt(current_row - 1 > 0, <<current_row - 1, alphabet_at(ci - 2)>>)
            ELSE << >>)

\* Elephant.get_movement_range
elephant_range(current) ==
    LET current_row == current[1]
        ci == alphabet_index[current[2]]
    IN  (IF current_row + 3 <= 10
         THEN Opt(ci + 2 <= 8, <<current_row + 3, alphabet_at(ci + 2)>>)
              \o Opt(ci - 2 >= 0, <<current_row + 3, alphabet_at(ci - 2)>>)
         ELSE << >>)
        \o (IF current_row - 3 > 0
            THEN Opt(ci + 2 <= 8, <<current_row - 3, alphabet_at(ci + 2)>>)
                 \o Opt(ci - 2 >= 0, <<current_row - 3, alphabet_at(ci - 2)>>)
            ELSE << >>)
        \o (IF ci + 3 <= 8
            THEN Opt(current_row + 2 <= 10, <<current_row + 2, alphabet_at(ci + 3)>>)
                 \o Opt(current_row - 2 > 0, <<current_row - 2, alphabet_at(ci + 3)>>)
            ELSE << >>)
        \o (IF ci - 3 >= 0
            THEN Opt(current_row + 2 <= 10, <<current_row + 2, alphabet_at(ci - 3)>>)
                 \o Opt(current_row - 2 > 0, <<current_row - 2, alphabet_at(ci - 3)>>)
            ELSE << >>)

\* Chariot.get_movement_range and Cannon.get_movement_range (the same code)
line_piece_range(current) ==
    LET current_row == current[1]
        current_column == current[2]
        rows == SelectSeq([r \in 1..10 |-> r], LAMBDA r : r # current_row)
        cols == SelectSeq(alphabet, LAMBDA c : c # current_column)
    IN  [k \in 1..Len(rows) |-> <<rows[k], current_column>>]
        \o [k \in 1..Len(cols) |-> <<current_row, cols[k]>>]
        \o Opt(current = <<8, "f">>, <<10, "d">>)
        \o Opt(current = <<8, "d">>, <<10, "f">>)
        \o Opt(current = <<10, "d">>, <<8, "f">>)
        \o Opt(current = <<10, "f">>, <<8, "d">>)
        \o Opt(current = <<3, "f">>, <<1, "d">>)
        \o Opt(current = <<3, "d">>, <<1, "f">>)
        \o Opt(current = <<1, "d">>, <<3, "f">>)
        \o Opt(current = <<1, "f">>, <<3, "d">>)

\* Soldier.get_movement_range
soldier_range(color, current) ==
    LET current_row == current[1]
        current_column == alphabet_index[current[2]]
        y_movement_direction == IF color = "RED" THEN 1 ELSE -1
        forward == IF color = "BLUE" /\ current_row = 1 THEN << >>
                   ELSE IF color = "RED" /\ current_row = 10 THEN << >>
                   ELSE << <<current_row + y_movement_direction, current[2]>> >>
        left == IF current_column = 0 THEN << >>
                ELSE << <<current_row, alphabet_at(current_column - 1)>> >>
        right == IF current_column = 8 THEN << >>
                 ELSE << <<current_row, alphabet_at(current_column + 1)>> >>
    IN  forward \o left \o right
        \o (IF color = "RED"
            THEN Opt(current = <<8, "d">> \/ current = <<8, "f">>, <<9, "e">>)
                 \o (IF current = <<9, "e">> THEN << <<10, "d">>, <<10, "f">> >> ELSE << >>)
            ELSE << >>)
        \o (IF color = "BLUE"
            THEN Opt(current = <<3, "d">> \/ current = <<3, "f">>, <<2, "e">>)
                 \o (IF current = <<2, "e">> THEN << <<1, "d">>, <<1, "f">> >> ELSE << >>)
            ELSE << >>)

\* General/Guard.get_movement_range raises IndexError on column 'i':
\* self._alphabet[current_column_index + 1] with index 9
get_movement_range_raises(name, current) ==
    /\ name \in {"GENERAL", "GUARD"}
    /\ alphabet_index[current[2]] + 1 > 8

\* <kind>.get_movement_range for a piece of this name and colour standing
\* on current (the empty list stands in where the call raises)
movement_range_of(name, color, current) ==
    IF get_movement_range_raises(name, current) THEN << >>
    ELSE IF name \in {"GENERAL", "GUARD"} THEN palace_piece_range(color, current)
    ELSE IF name = "HORSE" THEN horse_range(current)
    ELSE IF name = "ELEPHANT" THEN elephant_range(current)
    ELSE IF name \in {"CHARIOT", "CANNON"} THEN line_piece_range(current)
    ELSE soldier_range(color, current)

\* movement_range_of tabulated over every name, colour and square
movement_range_table ==
    [name \in {"GENERAL", "GUARD", "HORSE", "ELEPHANT", "CHARIOT", "CANNON", "SOLDIER"} |->
        [color \in {"RED", "BLUE"} |->
            [r \in Rows |-> [c \in Columns |-> movement_range_of(name, color, <<r, c>>)]]]]

\* piece.get_movement_range(): computed from the piece's own _current_pos
get_movement_range(jb, piece) ==
    movement_range_table[pieces_generator[piece].name][get_color(piece)][jb.pos[piece][1]][jb.pos[piece][2]]

(***************************************************************************)
(* Board.py: JanggiBoard.  jb is the board object:                         *)
(*   jb.board              _board, row -> column -> piece or None          *)
(*   jb.pos                the _current_pos of every piece object          *)
(*   jb.general_locations  _general_locations                              *)
(*   jb.checkmate          _checkmate                                      *)
(* An operation that can change the object or raise returns a record       *)
(* [ret, exc, jb]: its return value, the exception it raised ("" for       *)
(* none) and the board object as it leaves it.                             *)
(***************************************************************************)

\* JanggiBoard.__init__
NewBoard ==
    [board |-> [r \in Rows |-> [c \in Columns |->
                    IF \E p \in PieceIds : pieces_generator[p].at = <<r, c>>
                    THEN CHOOSE p \in PieceIds : pieces_generator[p].at = <<r, c>>
                    ELSE None]],
     pos |-> [p \in PieceIds |-> pieces_generator[p].at],
     general_locations |-> [BLUE |-> <<9, "e">>, RED |-> <<2, "e">>],
     checkmate |-> FALSE]

\* JanggiBoard.get_location_contents (the coordinates are keys of the grid)
get_location_contents(jb, coordinates) == jb.board[coordinates[1]][coordinates[2]]

\* self._board[c[0]][c[1]] = value
SetCell(jb, coordinates, value) ==
    [jb EXCEPT !.board[coordinates[1]][coordinates[2]] = value]

Result(ret, exc, jb) == [ret |-> ret, exc |-> exc, jb |-> jb]

\* the squares pieces_in_orthogonal_path looks at, in the order it does
orthogonal_path(move_from, move_to) ==
    IF move_from[1] = move_to[1]
    THEN LET from_index == alphabet_index[move_from[2]]
             to_index == alphabet_index[move_to[2]]
         IN  IF from_index < to_index
             THEN [k \in 1..(to_index - from_index - 1) |->
                      <<move_from[1], alphabet_at(from_index + k)>>]
             ELSE IF from_index > to_index
             THEN [k \in 1..(from_index - to_index - 1) |->
                      <<move_from[1], alphabet_at(from_index - k)>>]
             ELSE << >>
    ELSE IF move_from[2] = move_to[2]
    THEN LET from_index == move_from[1]
             to_index == move_to[1]
         IN  IF from_index > to_index
             THEN [k \in 1..(from_index - to_index - 1) |-> <<from_index - k, move_from[2]>>]
             ELSE IF from_index < to_index
             THEN [k \in 1..(to_index - from_index - 1) |-> <<from_index + k, move_from[2]>>]
             ELSE << >>
    ELSE IF move_from[2] = "d" \/ move_from[2] = "f"
    THEN IF move_from[1] <= 3 THEN << <<2, "e">> >> ELSE << <<9, "e">> >>
    ELSE << >>

\* pieces_in_orthogonal_path without the branch of lines 481-487: a path
\* between two palace corners is taken to be empty
pieces_in_orthogonal_path_no_diagonal(jb, move_from, move_to, searching_for) ==
    LET path == IF move_from[1] = move_to[1] \/ move_from[2] = move_to[2]
                THEN orthogonal_path(move_from, move_to) ELSE << >>
        found == SelectSeq(path, LAMBDA sq : get_location_contents(jb, sq) # None)
    IN  IF searching_for = "ANY"
        THEN Len(found)
        ELSE \E k \in 1..Len(found) : name_has(get_location_contents(jb, found[k]), "CANNON")

\* pieces_in_orthogonal_path looking along rows only: a path along a
\* column or a palace diagonal is taken to be empty
pieces_in_orthogonal_path_rows_only(jb, move_from, move_to, searching_for) ==
    LET path == IF move_from[1] = move_to[1] THEN orthogonal_path(move_from, move_to) ELSE << >>
        found == SelectSeq(path, LAMBDA sq : get_location_contents(jb, sq) # None)
    IN  IF searching_for = "ANY"
        THEN Len(found)
        ELSE \E k \in 1..Len(found) : name_has(get_location_contents(jb, found[k]), "CANNON")

\* pieces_in_orthogonal_path never reporting a Cannon on the path
pieces_in_orthogonal_path_any_screen(jb, move_from, move_to, searching_for) ==
    LET path == orthogonal_path(move_from, move_to)
        found == SelectSeq(path, LAMBDA sq : get_location_contents(jb, sq) # None)
    IN  IF searching_for = "ANY" THEN Len(found) ELSE FALSE

\* JanggiBoard.pieces_in_orthogonal_path: the number of pieces found with
\* searching_for = "ANY", else whether a Cannon is among them (None is FALSE)
pieces_in_orthogonal_path(jb, move_from, move_to, searching_for) ==
    LET path == orthogonal_path(move_from, move_to)
        found == SelectSeq(path, LAMBDA sq : get_location_contents(jb, sq) # None)
    IN  IF searching_for = "ANY"
        THEN Len(found)
        ELSE \E k \in 1..Len(found) : name_has(get_location_contents(jb, found[k]), "CANNON")

\* JanggiBoard.is_elephant_path_blocked
is_elephant_path_blocked(jb, elephant, move_to) ==
    LET move_from == jb.pos[elephant]
        ci == alphabet_index[move_from[2]]
        north_south == move_to[1] - move_from[1]
        east_west == alphabet_index[move_to[2]] - ci
        abs_ns == IF north_south < 0 THEN -north_south ELSE north_south
        items_found ==
            IF abs_ns = 3
            THEN IF north_south > 0
                 THEN << <<move_from[1] + 1, move_from[2]>>,
                         IF east_west > 0 THEN <<move_from[1] + 2, alphabet_at(ci + 1)>>
                                          ELSE <<move_from[1] + 2, alphabet_at(ci - 1)>> >>
                 ELSE << <<move_from[1] - 1, move_from[2]>>,
                         IF east_west > 0 THEN <<move_from[1] - 2, alphabet_at(ci + 1)>>
                                          ELSE <<move_from[1] - 2, alphabet_at(ci - 1)>> >>
            ELSE IF east_west > 0
                 THEN << <<move_from[1], alphabet_at(ci + 1)>>,
                         IF north_south > 0 THEN <<move_from[1] + 1, alphabet_at(ci + 2)>>
                                            ELSE <<move_from[1] - 1, alphabet_at(ci + 2)>> >>
                 ELSE << <<move_from[1], alphabet_at(ci - 1)>>,
                         IF north_south > 0 THEN <<move_from[1] + 1, alphabet_at(ci - 2)>>
                                            ELSE <<move_from[1] - 1, alphabet_at(ci - 2)>> >>
    IN  \E k \in 1..2 : get_location_contents(jb, items_found[k]) # None

\* JanggiBoard.is_horse_path_blocked
is_horse_path_blocked(jb, horse, move_to) ==
    LET move_from == jb.pos[horse]
        ci == alphabet_index[move_from[2]]
        north_south == move_to[1] - move_from[1]
        east_west == alphabet_index[move_to[2]] - ci
        abs_ns == IF north_south < 0 THEN -north_south ELSE north_south
        item_found ==
            IF abs_ns = 2
            THEN IF north_south > 0
                 THEN get_location_contents(jb, <<move_from[1] + 1, move_from[2]>>)
                 ELSE get_location_contents(jb, <<move_from[1] - 1, move_from[2]>>)
            ELSE IF east_west > 0
                 THEN get_location_contents(jb, <<move_from[1], alphabet_at(ci + 1)>>)
                 ELSE get_location_contents(jb, <<move_from[1], alphabet_at(ci - 1)>>)
    IN  item_found # None

\* safe_general_move_check leaving out of the check zone the squares an
\* enemy piece could not legally move to, as is_general_stuck does
safe_general_move_check_filtered(jb, opposing_color, move_to) ==
    ~ \E k \in 1..90 :
        LET item == get_location_contents(jb, Cells[k])
        IN  /\ item # None
            /\ get_color(item) = opposing_color
            /\ InSeq(move_to, get_movement_range(jb, item))
            /\ pieces_in_orthogonal_path(jb, jb.pos[item], move_to, "ANY") = 0

\* JanggiBoard.safe_general_move_check: move_to is outside the raw movement
\* range of every piece of opposing_color
safe_general_move_check(jb, opposing_color, move_to) ==
    ~ \E k \in 1..90 :
        LET item == get_location_contents(jb, Cells[k])
        IN  /\ item # None
            /\ get_color(item) = opposing_color
            /\ InSeq(move_to, get_movement_range(jb, item))

\* the Cannon rule comparing the two names, which carry the colours
cannon_captures_cannon_by_name(jb, move_to, piece) ==
    /\ get_location_contents(jb, move_to) # None
    /\ name_has(piece, "CANNON")
    /\ get_color(piece) = get_color(get_location_contents(jb, move_to))
    /\ name_has(get_location_contents(jb, move_to), "CANNON")

\* pass_legality_check, lines 128-132: a Cannon moving onto a Cannon
cannon_captures_cannon(jb, move_to, piece) ==
    /\ get_location_contents(jb, move_to) # None
    /\ name_has(piece, "CANNON")
    /\ name_has(get_location_contents(jb, move_to), "CANNON")

\* the palace rule asked of Guards alone
leaves_palace_guard_only(move_to, piece) ==
    /\ name_has(piece, "GUARD")
    /\ move_to \notin blue_palace /\ move_to \notin red_palace

\* pass_legality_check, lines 134-137: a General or Guard leaving the palaces
leaves_palace(move_to, piece) ==
    /\ name_has(piece, "GENERAL") \/ name_has(piece, "GUARD")
    /\ move_to \notin blue_palace /\ move_to \notin red_palace

\* pass_legality_check, lines 115-169: the rules applied in both modes
legality_rules(jb, move_to, piece, current_turn) ==
    LET piece_color == get_color(piece)
        movement_range == get_movement_range(jb, piece)
        current_pos == jb.pos[piece]
    IN  /\ piece_color = current_turn
        /\ InSeq(move_to, movement_range)
        /\ ~ (/\ get_location_contents(jb, move_to) # None
              /\ piece_color = get_color(get_location_contents(jb, move_to)))
        /\ ~ cannon_captures_cannon(jb, move_to, piece)
        /\ ~ leaves_palace(move_to, piece)
        /\ (name_has(piece, "CHARIOT")
               => pieces_in_orthogonal_path(jb, current_pos, move_to, "ANY") = 0)
        /\ (name_has(piece, "CANNON")
               => /\ pieces_in_orthogonal_path(jb, current_pos, move_to, "ANY") = 1
                  /\ ~ pieces_in_orthogonal_path(jb, current_pos, move_to, "CANNON"))
        /\ (name_has(piece, "ELEPHANT") => ~ is_elephant_path_blocked(jb, piece, move_to))
        /\ (name_has(piece, "HORSE") => ~ is_horse_path_blocked(jb, piece, move_to))

\* pass_legality_check called with hypothetical_movement=True: lines 96-98
\* (get_movement_range may raise) and then the rules of lines 115-169; the
\* block of lines 100-113 is skipped, so this mode calls nothing that
\* changes the board
hypothetical_legality_check(jb, move_to, piece, current_turn) ==
    IF get_movement_range_raises(pieces_generator[piece].name, jb.pos[piece])
    THEN Result(FALSE, "IndexError", jb)
    ELSE Result(legality_rules(jb, move_to, piece, current_turn), "", jb)

RECURSIVE break_check_moves(_, _, _, _, _)
RECURSIVE break_check_cells(_, _, _)

\* JanggiBoard.get_general_check_status
get_general_check_status(jb, general_color) ==
    LET general_location == jb.general_locations[general_color]
        enemy_color == Opposite(general_color)
    IN  \E k \in 1..90 :
            LET item == get_location_contents(jb, Cells[k])
            IN  /\ item # None
                /\ get_color(item) # general_color
                /\ \E m \in 1..Len(get_movement_range(jb, item)) :
                      LET potential_move == get_movement_range(jb, item)[m]
                      IN  /\ potential_move = general_location
                          /\ hypothetical_legality_check(jb, potential_move, item,
                                                         enemy_color).ret

\* test_save_general_movement putting the moved piece back but not the
\* piece it found on save_general_move
test_save_general_movement_half_restored(jb, friendly_piece, save_general_move, general_color) ==
    IF ~ ValidKey(save_general_move)
    THEN Result(FALSE, "KeyError", jb)
    ELSE LET original_location == jb.pos[friendly_piece]
             moved == SetCell(SetCell(jb, save_general_move, friendly_piece),
                              original_location, None)
             general_still_checked == get_general_check_status(moved, general_color)
             restored == SetCell(SetCell(moved, save_general_move, None),
                                 original_location, friendly_piece)
         IN  Result(~ general_still_checked, "", restored)

\* JanggiBoard.test_save_general_movement
test_save_general_movement(jb, friendly_piece, save_general_move, general_color) ==
    IF ~ ValidKey(save_general_move)
    THEN Result(FALSE, "KeyError", jb)
    ELSE LET save_item == get_location_contents(jb, save_general_move)
             original_location == jb.pos[friendly_piece]
             moved == SetCell(SetCell(jb, save_general_move, friendly_piece),
                              original_location, None)
             general_still_checked == get_general_check_status(moved, general_color)
             restored == SetCell(SetCell(moved, save_general_move, save_item),
                                 original_location, friendly_piece)
         IN  Result(~ general_still_checked, "", restored)

\* can_friendly_break_check, lines 399-400: test_save_general_movement has
\* returned t for range[m]
break_check_tested(t, general, item, range, m) ==
    IF t.ret THEN Result(TRUE, "", t.jb)
    ELSE break_check_moves(t.jb, general, item, range, m + 1)

\* can_friendly_break_check, lines 394-400: the loop over one item's range
break_check_moves(jb, general, item, range, m) ==
    IF m > Len(range)
    THEN Result(FALSE, "", jb)
    ELSE IF /\ range[m] # jb.pos[general]
            /\ hypothetical_legality_check(jb, range[m], item, get_color(general)).ret
         THEN break_check_tested(
                  test_save_general_movement(jb, item, range[m], get_color(general)),
                  general, item, range, m)
         ELSE break_check_moves(jb, general, item, range, m + 1)

\* can_friendly_break_check, lines 390-401: the moves of the item of cell k
\* have given r
break_check_item_done(r, general, k) ==
    IF r.ret THEN r ELSE break_check_cells(r.jb, general, k + 1)

\* can_friendly_break_check, lines 390-393: the first cell from the k-th on
\* that holds a piece of the general's colour other than the general, 91
\* when the loop over the cells ends without one
next_friendly_cell(jb, general, k) ==
    LET friendly == { j \in k..90 :
                        LET item == get_location_contents(jb, Cells[j])
                        IN  item # general /\ item # None
                            /\ get_color(item) = get_color(general) }
    IN  IF friendly = {} THEN 91 ELSE CHOOSE j \in friendly : \A i \in friendly : j <= i

\* can_friendly_break_check, lines 394-401: the loop has come to cell k,
\* which holds a friendly piece, or to its end
break_check_from(jb, general, k) ==
    IF k > 90
    THEN Result(FALSE, "", jb)
    ELSE break_check_item_done(
             break_check_moves(jb, general, get_location_contents(jb, Cells[k]),
                               get_movement_range(jb, get_location_contents(jb, Cells[k])), 1),
             general, k)

\* can_friendly_break_check, lines 390-401: the loop over the cells, from
\* the k-th on
break_check_cells(jb, general, k) ==
    break_check_from(jb, general, next_friendly_cell(jb, general, k))

\* JanggiBoard.can_friendly_break_check; general.get_color() raises
\* AttributeError when the cell of the General-location map is empty
can_friendly_break_check(jb, general) ==
    IF general = None
    THEN Result(FALSE, "AttributeError", jb)
    ELSE break_check_cells(jb, general, 1)

\* pass_legality_check, lines 107-108 and 115-169: test_save_general_movement
\* has returned t
legality_after_save(t, move_to, piece, current_turn) ==
    IF t.exc # "" THEN t
    ELSE IF ~ t.ret THEN Result(FALSE, "", t.jb)
    ELSE Result(legality_rules(t.jb, move_to, piece, current_turn), "", t.jb)

\* pass_legality_check, lines 105-108: can_friendly_break_check has returned c
legality_after_break_check(c, move_to, piece, current_turn) ==
    IF c.exc # "" THEN c
    ELSE IF ~ c.ret THEN Result(FALSE, "", c.jb)
    ELSE legality_after_save(
             test_save_general_movement(c.jb, piece, move_to, get_color(piece)),
             move_to, piece, current_turn)

\* JanggiBoard.pass_legality_check
pass_legality_check(jb, move_to, piece, current_turn, hypothetical_movement) ==
    LET piece_color == get_color(piece)
        opposing_color == Opposite(piece_color)
        general == get_location_contents(jb, jb.general_locations[current_turn])
        \* self.get_general_check_status(current_turn), lines 104 and 111
        in_check == get_general_check_status(jb, current_turn)
    IN  IF hypothetical_movement
        THEN hypothetical_legality_check(jb, move_to, piece, current_turn)
        ELSE IF get_movement_range_raises(pieces_generator[piece].name, jb.pos[piece])
        THEN Result(FALSE, "IndexError", jb)
        ELSE IF in_check /\ piece # general
        THEN legality_after_break_check(can_friendly_break_check(jb, general),
                                        move_to, piece, current_turn)
        ELSE IF in_check /\ ~ safe_general_move_check(jb, opposing_color, move_to)
        THEN Result(FALSE, "", jb)
        ELSE Result(legality_rules(jb, move_to, piece, current_turn), "", jb)

\* move_piece writing the grid before it looks at the legality check
move_piece_written_first(legal, board_piece, move_from, move_to, current_turn) ==
    LET placed == SetCell(SetCell(legal.jb, move_to, board_piece), move_from, None)
        moved == [placed EXCEPT !.pos[board_piece] = move_to]
    IN  IF legal.exc # "" THEN legal
        ELSE IF ~ legal.ret THEN Result(FALSE, "", placed)
        ELSE Result(TRUE, "",
                 IF is_general(board_piece)
                 THEN [moved EXCEPT !.general_locations[current_turn] = move_to]
                 ELSE moved)

\* move_piece recording the destination in the General-location map for
\* every piece it moves
move_piece_maps_every_piece(legal, board_piece, move_from, move_to, current_turn) ==
    IF legal.exc # "" THEN legal
    ELSE IF ~ legal.ret THEN Result(FALSE, "", legal.jb)
    ELSE LET placed == SetCell(SetCell(legal.jb, move_to, board_piece), move_from, None)
             moved == [placed EXCEPT !.pos[board_piece] = move_to]
         IN  Result(TRUE, "", [moved EXCEPT !.general_locations[current_turn] = move_to])

\* move_piece leaving the moved piece in the source cell as well
move_piece_source_kept(legal, board_piece, move_from, move_to, current_turn) ==
    IF legal.exc # "" THEN legal
    ELSE IF ~ legal.ret THEN Result(FALSE, "", legal.jb)
    ELSE LET placed == SetCell(legal.jb, move_to, board_piece)
             moved == [placed EXCEPT !.pos[board_piece] = move_to]
         IN  Result(TRUE, "",
                 IF is_general(board_piece)
                 THEN [moved EXCEPT !.general_locations[current_turn] = move_to]
                 ELSE moved)

\* move_piece, lines 206-216: pass_legality_check has returned legal
move_piece_checked(legal, board_piece, move_from, move_to, current_turn) ==
    IF legal.exc # "" THEN legal
    ELSE IF ~ legal.ret THEN Result(FALSE, "", legal.jb)
    ELSE LET placed == SetCell(SetCell(legal.jb, move_to, board_piece), move_from, None)
             moved == [placed EXCEPT !.pos[board_piece] = move_to]
         IN  Result(TRUE, "",
                 IF is_general(board_piece)
                 THEN [moved EXCEPT !.general_locations[current_turn] = move_to]
                 ELSE moved)

\* JanggiBoard.move_piece
move_piece(jb, move_from, move_to, current_turn) ==
    IF ~ ValidKey(move_from)
    THEN Result(FALSE, "KeyError", jb)
    ELSE IF get_location_contents(jb, move_from) = None
    THEN Result(FALSE, "", jb)
    ELSE move_piece_checked(
             pass_legality_check(jb, move_to, get_location_contents(jb, move_from),
                                 current_turn, FALSE),
             get_location_contents(jb, move_from), move_from, move_to, current_turn)

\* is_general_stuck, lines 266-272: location is in check_zone, the squares
\* a piece of opposing_color has in range and may legally move to
in_check_zone(jb, opposing_color, location) ==
    \E k \in 1..90 :
        LET item == get_location_contents(jb, Cells[k])
        IN  /\ item # None
            /\ get_color(item) = opposing_color
            /\ InSeq(location, get_movement_range(jb, item))
            /\ hypothetical_legality_check(jb, location, item, opposing_color).ret

\* is_general_stuck, lines 274-277: the list escape_options
escape_options(jb, general, opposing_color) ==
    SelectSeq(get_movement_range(jb, general),
              LAMBDA option : /\ ~ in_check_zone(jb, opposing_color, option)
                              /\ hypothetical_legality_check(jb, option, general,
                                                             get_color(general)).ret)

\* JanggiBoard.is_general_stuck (general is a piece object)
is_general_stuck(jb, general, opposing_color) ==
    Len(escape_options(jb, general, opposing_color)) = 0

\* update_checkmate_status, lines 364-367: the General is stuck and
\* can_friendly_break_check has returned c
checkmate_if_unbroken(c) ==
    Result(TRUE, "", IF ~ c.ret THEN [c.jb EXCEPT !.checkmate = TRUE] ELSE c.jb)

\* update_checkmate_status, line 364 / line 366: one of the two tests;
\* is_general_stuck(None, ...) raises AttributeError
checkmate_test(jb, general, opposing_color) ==
    IF general = None
    THEN Result(FALSE, "AttributeError", jb)
    ELSE IF is_general_stuck(jb, general, opposing_color)
    THEN checkmate_if_unbroken(can_friendly_break_check(jb, general))
    ELSE Result(TRUE, "", jb)

\* update_checkmate_status, lines 366-367: the test of the RED General has
\* ended as red; the test of the BLUE General follows unless it raised
checkmate_test_blue(red, blue_general) ==
    IF red.exc # "" THEN red
    ELSE checkmate_test(red.jb, blue_general, "RED")

\* update_checkmate_status assigning False to the flag before its tests
update_checkmate_status_from_false(jb) ==
    checkmate_test_blue(
        checkmate_test([jb EXCEPT !.checkmate = FALSE],
                       get_location_contents(jb, jb.general_locations["RED"]), "BLUE"),
        get_location_contents(jb, jb.general_locations["BLUE"]))

\* JanggiBoard.update_checkmate_status
update_checkmate_status(jb) ==
    checkmate_test_blue(
        checkmate_test(jb, get_location_contents(jb, jb.general_locations["RED"]), "BLUE"),
        get_location_contents(jb, jb.general_locations["BLUE"]))

\* JanggiBoard.get_checkmate_status
get_checkmate_status(jb) == jb.checkmate

(***************************************************************************)
(* Main.py: JanggiGame                                                     *)
(***************************************************************************)

VARIABLES
    current_board,  \* JanggiGame._current_board, the JanggiBoard object
    game_state,     \* JanggiGame._game_state
    current_turn,   \* JanggiGame._current_turn
    is_in_check,    \* JanggiGame._is_in_check
    board_piece,    \* a BoardPiece object constructed on its own, or None
    movement_range  \* whether it was asked for its movement range, and the answer

vars == <<current_board, game_state, current_turn, is_in_check, board_piece, movement_range>>

\* str.lower() on one character (the upper-case letters that lower into the
\* alphabet; any other character stays outside 'a'..'i' either way)
lower(ch) ==
    LET upper == [A |-> "a", B |-> "b", C |-> "c", D |-> "d", E |-> "e",
                  F |-> "f", G |-> "g", H |-> "h", I |-> "i"]
    IN  IF ch \in DOMAIN upper THEN upper[ch] ELSE ch

Digits == <<"0", "1", "2", "3", "4", "5", "6", "7", "8", "9">>

IsDigit(ch) == \E d \in 1..10 : Digits[d] = ch

DigitValue(ch) == (CHOOSE d \in 1..10 : Digits[d] = ch) - 1

RECURSIVE int_of(_)
\* int(s) for a string of ASCII letters and digits: the decimal value
int_of(s) == IF Len(s) = 0 THEN 0
             ELSE 10 * int_of(SubSeq(s, 1, Len(s) - 1)) + DigitValue(s[Len(s)])

\* int(s) raises ValueError
int_raises(s) == Len(s) = 0 \/ \E k \in 1..Len(s) : ~ IsDigit(s[k])

\* JanggiBoard.parse_coordinate: (int(string_location[1:]), string_location[0])
parse_coordinate(string_location) ==
    <<int_of(SubSeq(string_location, 2, Len(string_location))), string_location[1]>>

\* the game object as a record
Game(board, state, turn, checks) ==
    [current_board |-> board, game_state |-> state, current_turn |-> turn,
     is_in_check |-> checks]

\* how a call on the game ends: ret is "True", "False", "None" or the name
\* of the exception raised, game is the game object as the call leaves it
Call(ret, game) == [ret |-> ret, game |-> game]

\* get_game_state answering with the value __init__ gave the field
get_game_state_initial(game) == "UNFINISHED"

\* JanggiGame.get_game_state
get_game_state(game) == game.game_state

\* JanggiGame.change_turn
change_turn(game) ==
    [game EXCEPT !.current_turn = IF game.current_turn = "BLUE" THEN "RED" ELSE "BLUE"]

\* JanggiGame.checkmate
checkmate(game, loser) ==
    [game EXCEPT !.game_state = IF loser = "RED" THEN "BLUE_WON" ELSE "RED_WON"]

\* update_check_status, lines 177-181 / 186-190: update_checkmate_status has
\* ended as u on the game with its flags set
checkmate_declared(u, flagged, player) ==
    LET updated == [flagged EXCEPT !.current_board = u.jb]
    IN  IF u.exc # "" THEN Call(u.exc, updated)
        ELSE IF get_checkmate_status(u.jb) THEN Call("None", checkmate(updated, player))
        ELSE Call("None", updated)

\* update_check_status, lines 175-181 / 184-190: one player is in check
declare_check(game, player) ==
    checkmate_declared(
        update_checkmate_status(game.current_board),
        [game EXCEPT !.is_in_check = [RED |-> player = "RED", BLUE |-> player = "BLUE"]],
        player)

\* JanggiGame.update_check_status
update_check_status(game) ==
    IF get_general_check_status(game.current_board, "RED")
    THEN declare_check(game, "RED")
    ELSE IF get_general_check_status(game.current_board, "BLUE")
    THEN declare_check(game, "BLUE")
    ELSE Call("None", [game EXCEPT !.is_in_check = [RED |-> FALSE, BLUE |-> FALSE]])

\* make_move, lines 110-120: the input validation rejects the call
validation_rejects(move_from, move_to) ==
    \/ lower(move_from[1]) \notin Columns
    \/ lower(move_to[1]) \notin Columns
    \/ Len(move_from) < 2
    \/ Len(move_to) < 2
    \/ IF Len(move_from) = 3
       THEN move_from[2] # "1" \/ move_from[3] # "0"
       ELSE /\ Len(move_to) = 3
            /\ move_to[2] # "1" \/ move_to[3] # "0"

\* make_move, lines 140-142: update_check_status has ended as u
move_completed(u) ==
    IF u.ret # "None" THEN u ELSE Call("True", u.game)

\* make_move, lines 137-142: move_piece has ended as m
move_made(m, game) ==
    LET after == [game EXCEPT !.current_board = m.jb]
    IN  IF m.exc # "" THEN Call(m.exc, after)
        ELSE IF ~ m.ret THEN Call("False", after)
        ELSE move_completed(update_check_status(change_turn(after)))

\* JanggiGame.make_move
make_move(game, move_from, move_to) ==
    IF Len(move_from) = 0
    THEN Call("IndexError", game)
    ELSE IF lower(move_from[1]) \in Columns /\ Len(move_to) = 0
    THEN Call("IndexError", game)
    ELSE IF validation_rejects(move_from, move_to)
    THEN Call("False", game)
    ELSE IF get_game_state(game) # "UNFINISHED"
    THEN Call("False", game)
    ELSE IF move_from = move_to /\ ~ game.is_in_check[game.current_turn]
    THEN Call("True", change_turn(game))
    ELSE IF int_raises(SubSeq(move_from, 2, Len(move_from)))
            \/ int_raises(SubSeq(move_to, 2, Len(move_to)))
    THEN Call("ValueError", game)
    ELSE move_made(
             move_piece(game.current_board, parse_coordinate(move_from),
                        parse_coordinate(move_to), game.current_turn),
             game)

\* JanggiGame.__init__
Init ==
    /\ current_board = NewBoard
    /\ game_state = "UNFINISHED"
    /\ current_turn = "BLUE"
    /\ is_in_check = [BLUE |-> FALSE, RED |-> FALSE]
    /\ board_piece = None
    /\ movement_range = [called |-> FALSE, ret |-> << >>, exc |-> ""]

TheGame == Game(current_board, game_state, current_turn, is_in_check)

(***************************************************************************)
(* The calls made on the game: make_move with coordinate strings drawn     *)
(* from MoveInputs.                                                        *)
(***************************************************************************)

\* the coordinate string of column col and row number row, e.g. "a10"
Str(col, row) == IF row >= 10 THEN <<col, Digits[(row \div 10) + 1], Digits[(row % 10) + 1]>>
                 ELSE <<col, Digits[row + 1]>>

\* the largest row number written in a coordinate string of MalformedInputs
MaxRow == 11

\* well-formed coordinate pairs: a Chariot raid on the RED palace (and out
\* of it along row 1), a second Chariot, RED General steps, a pass, a
\* Soldier and the Cannons of file b
WellFormedInputs ==
    { <<Str("a", 10), Str("a", 9)>>, <<Str("a", 9), Str("d", 9)>>,
      <<Str("d", 9), Str("d", 1)>>, <<Str("d", 1), Str("f", 1)>>,
      <<Str("d", 9), Str("d", 3)>>, <<Str("d", 3), Str("e", 3)>>,
      <<Str("e", 3), Str("e", 2)>>,
      <<Str("i", 10), Str("i", 9)>>, <<Str("i", 9), Str("f", 9)>>,
      <<Str("f", 9), Str("f", 2)>>,
      <<Str("d", 1), Str("c", 1)>>,
      <<Str("e", 2), Str("e", 2)>>, <<Str("e", 2), Str("d", 1)>>,
      <<Str("e", 2), Str("e", 3)>>, <<Str("a", 1), Str("a", 2)>>,
      <<Str("a", 7), Str("b", 7)>>, <<Str("b", 3), Str("b", 8)>>,
      <<Str("b", 8), Str("b", 5)>>, <<Str("a", 7), Str("a", 5)>> }

\* pairs in which a coordinate is not a letter 'a'..'i' and a row 1..10
MalformedInputs ==
    { << << >>, Str("a", 1)>>, <<Str("a", 1), << >> >>, << <<"j", "1">>, << >> >>,
      << <<"a">>, Str("a", 1)>>, << <<"j", "1">>, Str("a", 1)>>,
      << <<"A", "7">>, <<"A", "6">> >>, << <<"A", "7">>, <<"A", "7">> >>,
      << <<"a", "b">>, <<"a", "b">> >>, <<Str("a", 7), <<"a", "b">> >>,
      <<Str("a", 10), <<"a", "1", "b">> >>, <<Str("a", 7), <<"a", "1", "b">> >>,
      <<Str("a", 10), <<"a", "1", "0", "0">> >>,
      << <<"a", "1", "0", "0">>, Str("a", 1)>> }
    \cup { <<Str("a", r), Str("a", 1)>> : r \in {0, MaxRow} }
    \cup { <<Str("a", 7), Str("a", r)>> : r \in {0, MaxRow} }
    \cup { <<Str("a", r), Str("a", r)>> : r \in {0, MaxRow} }

MoveInputs == WellFormedInputs \cup MalformedInputs

\* one call game.make_move(move_from, move_to)
MakeMove(move_from, move_to) ==
    \E call \in {make_move(TheGame, move_from, move_to)} :
        /\ current_board' = call.game.current_board
        /\ game_state' = call.game.game_state
        /\ current_turn' = call.game.current_turn
        /\ is_in_check' = call.game.is_in_check
        /\ UNCHANGED <<board_piece, movement_range>>

Next == \E input \in MoveInputs : MakeMove(input[1], input[2])

Spec == Init /\ [][Next]_vars

(***************************************************************************)
(* The same game with the board object also called directly, as its public *)
(* methods allow: move_piece with coordinates and a colour drawn from      *)
(* BoardInputs, and update_checkmate_status.                               *)
(***************************************************************************)

\* <<move_from, move_to, current_turn>> of the direct move_piece calls: a
\* Chariot entering file f of the RED palace, and the two Chariots leaving
\* it again, each asked for either colour
BoardInputs ==
    { <<mv[1], mv[2], turn>> :
        mv \in { << <<9, "f">>, <<2, "f">> >>, << <<2, "f">>, <<9, "f">> >>,
                 << <<1, "f">>, <<8, "f">> >> },
        turn \in {"RED", "BLUE"} }

\* one call game._current_board.move_piece(move_from, move_to, turn)
MovePiece(move_from, move_to, turn) ==
    /\ current_board' = move_piece(current_board, move_from, move_to, turn).jb
    /\ UNCHANGED <<game_state, current_turn, is_in_check, board_piece, movement_range>>

\* one call game._current_board.update_checkmate_status()
UpdateCheckmateStatus ==
    /\ current_board' = update_checkmate_status(current_board).jb
    /\ UNCHANGED <<game_state, current_turn, is_in_check, board_piece, movement_range>>

NextBoard ==
    \/ \E input \in MoveInputs : MakeMove(input[1], input[2])
    \/ \E input \in BoardInputs : MovePiece(input[1], input[2], input[3])
    \/ UpdateCheckmateStatus

SpecBoard == Init /\ [][NextBoard]_vars

(***************************************************************************)
(* A game in which both sides send their Chariots into the other palace:   *)
(* make_move with coordinate strings drawn from DuelInputs.                *)
(***************************************************************************)

\* the BLUE Chariot of file a goes to g2 by way of d9, d3 and g3; the RED
\* Chariots go to f10 (taking both Guards) and to f2, from where one leaves
\* row 2 for f9 or f3; the BLUE General steps to d10; e2-e2 is a pass
DuelInputs ==
    { <<Str("a", 10), Str("a", 9)>>, <<Str("a", 9), Str("d", 9)>>,
      <<Str("d", 9), Str("d", 3)>>, <<Str("d", 3), Str("g", 3)>>,
      <<Str("g", 3), Str("g", 2)>>, <<Str("e", 9), Str("d", 10)>>,
      <<Str("a", 1), Str("a", 2)>>, <<Str("a", 2), Str("d", 2)>>,
      <<Str("d", 2), Str("d", 10)>>, <<Str("d", 10), Str("f", 10)>>,
      <<Str("i", 1), Str("i", 2)>>, <<Str("i", 2), Str("f", 2)>>,
      <<Str("f", 2), Str("f", 9)>>, <<Str("f", 2), Str("f", 3)>>,
      <<Str("e", 2), Str("e", 2)>> }

NextDuel == \E input \in DuelInputs : MakeMove(input[1], input[2])

SpecDuel == Init /\ [][NextDuel]_vars

(***************************************************************************)
(* A game in which a RED Cannon jumps into its own palace and along the    *)
(* palace diagonal: make_move with coordinate strings drawn from           *)
(* CannonInputs.                                                           *)
(***************************************************************************)

\* the BLUE Chariot of file a goes to g3, where it is the screen for the RED
\* Cannon of h3 to jump to the palace corner f3; a RED Guard leaves the
\* corner d1, the Cannon jumps between f3 and d1 over the General on e2,
\* and the General steps between e2 and e1; a BLUE Soldier steps to b7 and
\* a BLUE Cannon jumps over it; e2-e2 is a pass
CannonInputs ==
    { <<Str("a", 10), Str("a", 9)>>, <<Str("a", 9), Str("d", 9)>>,
      <<Str("d", 9), Str("d", 3)>>, <<Str("d", 3), Str("g", 3)>>,
      <<Str("d", 1), Str("d", 2)>>, <<Str("h", 3), Str("f", 3)>>,
      <<Str("f", 3), Str("d", 1)>>, <<Str("d", 1), Str("f", 3)>>,
      <<Str("e", 2), Str("e", 1)>>, <<Str("e", 1), Str("e", 2)>>,
      <<Str("a", 7), Str("b", 7)>>, <<Str("b", 8), Str("b", 5)>>,
      <<Str("e", 2), Str("e", 2)>> }

NextCannon == \E input \in CannonInputs : MakeMove(input[1], input[2])

SpecCannon == Init /\ [][NextCannon]_vars

(***************************************************************************)
(* A piece object on its own, outside any board: constructed with a kind,  *)
(* a colour and a square, moved with update_current_pos and asked for its  *)
(* movement range.                                                         *)
(***************************************************************************)

PieceNames == {"GENERAL", "GUARD", "HORSE", "ELEPHANT", "CHARIOT", "CANNON", "SOLDIER"}

\* General(color, row, column), Guard(color, row, column), ...: the object
\* BoardPiece.__init__ leaves
BoardPiece(color, name, row, column) ==
    [color |-> color, name |-> name, current_pos |-> <<row, column>>]

\* BoardPiece.update_current_pos
update_current_pos(piece, location) == [piece EXCEPT !.current_pos = location]

\* piece.get_movement_range() on a piece object: ret is the list returned,
\* exc the exception raised ("" for none)
piece_get_movement_range(piece) ==
    IF get_movement_range_raises(piece.name, piece.current_pos)
    THEN [ret |-> << >>, exc |-> "IndexError"]
    ELSE [ret |-> movement_range_of(piece.name, piece.color, piece.current_pos), exc |-> ""]

\* the squares update_current_pos is called with: board corners and edges,
\* palace corners and centres, and a square of the open board
PieceLocations ==
    { <<1, "a">>, <<10, "i">>, <<5, "a">>, <<5, "i">>, <<2, "e">>, <<9, "e">>,
      <<1, "d">>, <<3, "f">>, <<8, "d">>, <<10, "f">>, <<5, "e">> }

\* a piece of any kind and colour constructed on any square of the board
InitPieces ==
    /\ current_board = NewBoard
    /\ game_state = "UNFINISHED"
    /\ current_turn = "BLUE"
    /\ is_in_check = [BLUE |-> FALSE, RED |-> FALSE]
    /\ board_piece \in { BoardPiece(color, name, sq[1], sq[2]) :
                            color \in {"RED", "BLUE"}, name \in PieceNames, sq \in CellSet }
    /\ movement_range = [called |-> FALSE, ret |-> << >>, exc |-> ""]

\* one call board_piece.get_movement_range()
GetMovementRange ==
    /\ movement_range' = [called |-> TRUE,
                          ret |-> piece_get_movement_range(board_piece).ret,
                          exc |-> piece_get_movement_range(board_piece).exc]
    /\ UNCHANGED <<current_board, game_state, current_turn, is_in_check, board_piece>>

\* one call board_piece.update_current_pos(location)
UpdateCurrentPos(location) ==
    /\ board_piece' = update_current_pos(board_piece, location)
    /\ UNCHANGED <<current_board, game_state, current_turn, is_in_check, movement_range>>

NextPieces ==
    \/ GetMovementRange
    \/ \E location \in PieceLocations : UpdateCurrentPos(location)

SpecPieces == InitPieces /\ [][NextPieces]_vars

(***************************************************************************)
(* Properties.  A call is judged in the state it is made in: call.ret is   *)
(* what make_move returns (or the exception it raises) and call.game the   *)
(* game object it leaves behind.                                           *)
(***************************************************************************)

\* the grid holds the General of this colour on this square
HoldsGeneral(jb, color, coordinates) ==
    LET item == get_location_contents(jb, coordinates)
    IN  item # None /\ is_general(item) /\ get_color(item) = color

\* the squares of the grid that hold a General of this colour
GeneralSquares(jb, color) == { sq \in CellSet : HoldsGeneral(jb, color, sq) }

\* C1: the current turn flips exactly when make_move returns True (an
\* accepted pass included) and is unchanged by every other call.
C1_TurnFlipsIffTrue ==
    \A input \in MoveInputs :
        LET call == make_move(TheGame, input[1], input[2])
        IN  (call.game.current_turn # current_turn) <=> (call.ret = "True")

\* C1, the part the code keeps: a call that returns flips the turn exactly
\* when it returns True.
C1_ReturningCallFlipsIffTrue ==
    \A input \in MoveInputs :
        LET call == make_move(TheGame, input[1], input[2])
        IN  call.ret \in {"True", "False"} =>
                ((call.game.current_turn # current_turn) <=> (call.ret = "True"))

\* C1: a call that raises after change_turn has already run
C1_RaisesWithTurnFlipped ==
    \E input \in MoveInputs :
        LET call == make_move(TheGame, input[1], input[2])
        IN  call.ret \notin {"True", "False"} /\ call.game.current_turn # current_turn

\* C2: once the game state is RED_WON or BLUE_WON, every make_move with
\* well-formed coordinates (a pass included) returns False and leaves the
\* game state, the turn, the check flags and the board as they are.
C2_ResultIsTerminal ==
    game_state # "UNFINISHED" =>
        \A input \in WellFormedInputs :
            LET call == make_move(TheGame, input[1], input[2])
            IN  call.ret = "False" /\ call.game = TheGame

\* C2: the game is over and the board would let the player to move make
\* one of the moves asked for
C2_OverWithMoveOnBoard ==
    /\ game_state = "BLUE_WON"
    /\ \E input \in WellFormedInputs :
          /\ input[1] # input[2]
          /\ move_piece(current_board, parse_coordinate(input[1]),
                        parse_coordinate(input[2]), current_turn).ret

\* the arguments of the move_piece calls looked at: the coordinates of the
\* well-formed make_move inputs and of BoardInputs, for either colour
MovePieceCalls ==
    { <<parse_coordinate(input[1]), parse_coordinate(input[2]), turn>> :
        input \in WellFormedInputs, turn \in {"RED", "BLUE"} }
    \cup BoardInputs

\* C3: a move_piece call that returns False leaves every grid cell, every
\* piece's recorded coordinate, the General-location map and the checkmate
\* flag as they were.
C3_RejectedMoveLeavesBoard ==
    \A mv \in MovePieceCalls :
        LET moved == move_piece(current_board, mv[1], mv[2], mv[3])
        IN  (moved.exc = "" /\ ~ moved.ret) => moved.jb = current_board

\* C3: the mover is in check, a friendly piece could break it, and the
\* move asked for is rejected after its simulation left the General in check
C3_RejectedAfterSimulation ==
    \E mv \in MovePieceCalls :
        LET piece == get_location_contents(current_board, mv[1])
            general == get_location_contents(current_board,
                                             current_board.general_locations[mv[3]])
        IN  /\ piece # None /\ general # None /\ piece # general
            /\ get_color(piece) = mv[3]
            /\ get_general_check_status(current_board, mv[3])
            /\ can_friendly_break_check(current_board, general).ret
            /\ ~ test_save_general_movement(current_board, piece, mv[2], mv[3]).ret
            /\ ~ move_piece(current_board, mv[1], mv[2], mv[3]).ret

\* C4: make_move never raises and rejects every malformed coordinate pair:
\* it returns False and leaves the turn, the check flags, the game state and
\* the board as they are, also when from == to.
C4_MalformedIsRejected ==
    \A input \in MalformedInputs :
        LET call == make_move(TheGame, input[1], input[2])
        IN  call.ret = "False" /\ call.game = TheGame

\* C4: a malformed pass is accepted as a move
C4_MalformedPassAccepted ==
    \E input \in MalformedInputs :
        LET call == make_move(TheGame, input[1], input[2])
        IN  call.ret = "True" /\ call.game.current_turn # current_turn

\* C5: while the game state is UNFINISHED the grid holds exactly one RED
\* General and exactly one BLUE General.
C5_OneGeneralEach ==
    game_state = "UNFINISHED" =>
        \A color \in {"RED", "BLUE"} :
            Cardinality(GeneralSquares(current_board, color)) = 1

\* C5: a General is gone from the grid of an unfinished game
C5_GeneralCaptured ==
    /\ game_state = "UNFINISHED"
    /\ \E color \in {"RED", "BLUE"} : GeneralSquares(current_board, color) = {}

\* C6: the General-location map is in sync with the grid: for each colour
\* the cell the map names holds that colour's General and no other cell does.
C6_GeneralLocationsInSync ==
    \A color \in {"RED", "BLUE"} :
        GeneralSquares(current_board, color) = {current_board.general_locations[color]}

\* C6, the part the code keeps: the map names the square of every General
\* that is on the grid.
C6_InSyncWhileOnGrid ==
    \A color \in {"RED", "BLUE"} :
        GeneralSquares(current_board, color) \subseteq {current_board.general_locations[color]}

\* C6: the cell the map names for a colour holds a piece of the other colour
C6_MapNamesEnemyPiece ==
    \E color \in {"RED", "BLUE"} :
        LET item == get_location_contents(current_board,
                                          current_board.general_locations[color])
        IN  item # None /\ get_color(item) # color

\* C7: the simulating calls return with the grid, every piece's recorded
\* coordinate and the General-location map as they were before the call,
\* whatever the result: test_save_general_movement (the destination asked
\* for, which may hold an enemy piece, and the piece's own square),
\* pass_legality_check in both modes and can_friendly_break_check.
\* get_general_check_status and is_general_stuck assign nothing and call
\* only the hypothetical mode, whose board is compared here.
C7_SimulationIsReversible ==
    /\ \A mv \in MovePieceCalls :
          LET piece == get_location_contents(current_board, mv[1])
          IN  piece # None =>
                /\ \A save_general_move \in {mv[1], mv[2]} :
                      test_save_general_movement(current_board, piece, save_general_move,
                                                 mv[3]).jb = current_board
                /\ \A hypothetical_movement \in BOOLEAN :
                      pass_legality_check(current_board, mv[2], piece, mv[3],
                                          hypothetical_movement).jb = current_board
    /\ \A color \in {"RED", "BLUE"} :
          LET general == get_location_contents(current_board,
                                               current_board.general_locations[color])
          IN  can_friendly_break_check(current_board, general).jb = current_board

\* C7: the mover is in check and the move asked for is a capture, so the
\* legality check simulates it with the enemy piece taken off the grid
C7_CaptureSimulated ==
    \E mv \in MovePieceCalls :
        LET piece == get_location_contents(current_board, mv[1])
            target == get_location_contents(current_board, mv[2])
            general == get_location_contents(current_board,
                                             current_board.general_locations[mv[3]])
        IN  /\ piece # None /\ target # None /\ general # None
            /\ piece # general
            /\ get_color(piece) = mv[3] /\ get_color(target) # mv[3]
            /\ get_general_check_status(current_board, mv[3])
            /\ can_friendly_break_check(current_board, general).ret

\* C8: the checkmate flag starts False and no make_move, move_piece or
\* update_checkmate_status call takes it from True back to False.
C8_CheckmateIsMonotonic ==
    /\ ~ get_checkmate_status(current_board)
    /\ [][get_checkmate_status(current_board) => get_checkmate_status(current_board')]_vars

\* C8: the flag is True on a board that update_checkmate_status would no
\* longer find in checkmate
C8_FlagOutlivesCheckmate ==
    /\ get_checkmate_status(current_board)
    /\ LET u == update_checkmate_status([current_board EXCEPT !.checkmate = FALSE])
       IN  u.exc = "" /\ ~ get_checkmate_status(u.jb)

\* C9: every General and every Guard on the grid stands in its own colour's
\* palace (RED rows 1-3, BLUE rows 8-10, columns d-f).
C9_PalacePiecesStayHome ==
    \A sq \in CellSet :
        LET item == get_location_contents(current_board, sq)
        IN  (item # None /\ (name_has(item, "GENERAL") \/ name_has(item, "GUARD"))) =>
                /\ sq[2] \in {"d", "e", "f"}
                /\ sq[1] \in (IF get_color(item) = "RED" THEN 1..3 ELSE 8..10)

\* C9: the RED General has moved to the edge of its palace, next to a
\* square outside it that a move asked for would take it to
C9_GeneralAtPalaceEdge ==
    /\ HoldsGeneral(current_board, "RED", <<1, "d">>)
    /\ get_location_contents(current_board, <<1, "c">>) # None
    /\ get_color(get_location_contents(current_board, <<1, "c">>)) = "BLUE"

\* C10: pass_legality_check never returns True, in either mode and for
\* either colour to move, for a Cannon whose destination holds a Cannon.
C10_CannonNeverTakesCannon ==
    \A piece \in PieceIds, target \in PieceIds :
        (/\ name_has(piece, "CANNON") /\ name_has(target, "CANNON")
         /\ get_location_contents(current_board, current_board.pos[piece]) = piece
         /\ get_location_contents(current_board, current_board.pos[target]) = target)
        => \A turn \in {"RED", "BLUE"}, hypothetical_movement \in BOOLEAN :
              ~ pass_legality_check(current_board, current_board.pos[target], piece, turn,
                                    hypothetical_movement).ret

\* C10: the Cannon to move faces an enemy Cannon over exactly one piece,
\* not a Cannon, so only the Cannon rule stands between it and the capture
C10_ScreenedCannonFacesCannon ==
    \E piece \in PieceIds, target \in PieceIds :
        /\ name_has(piece, "CANNON") /\ name_has(target, "CANNON")
        /\ get_location_contents(current_board, current_board.pos[piece]) = piece
        /\ get_location_contents(current_board, current_board.pos[target]) = target
        /\ get_color(piece) = current_turn /\ get_color(target) # current_turn
        /\ InSeq(current_board.pos[target], get_movement_range(current_board, piece))
        /\ pieces_in_orthogonal_path(current_board, current_board.pos[piece],
                                     current_board.pos[target], "ANY") = 1
        /\ ~ pieces_in_orthogonal_path(current_board, current_board.pos[piece],
                                       current_board.pos[target], "CANNON")
        /\ ~ get_general_check_status(current_board, current_turn)

\* the coordinate strings a pass is asked with: the square of a General, the
\* square of another piece and an empty square
PassCoordinates == { Str("e", 2), Str("d", 10), Str("a", 4), Str("e", 5) }

\* C11: in an UNFINISHED game a pass make_move(c, c) returns True, flips the
\* turn and changes nothing else when the General of the player to move is
\* not attacked on the board, and returns False, changing nothing, when it
\* is attacked.
C11_PassOnlyOutOfCheck ==
    game_state = "UNFINISHED" =>
        \A c \in PassCoordinates :
            LET call == make_move(TheGame, c, c)
            IN  IF get_general_check_status(current_board, current_turn)
                THEN call.ret = "False" /\ call.game = TheGame
                ELSE call.ret = "True" /\ call.game = change_turn(TheGame)

\* C11: the General of the player to move is attacked on the board and the
\* pass is accepted
C11_AttackedPlayerPasses ==
    /\ game_state = "UNFINISHED"
    /\ get_general_check_status(current_board, current_turn)
    /\ \E c \in PassCoordinates :
          LET call == make_move(TheGame, c, c)
          IN  call.ret = "True" /\ call.game.current_turn # current_turn

\* C11, the part the code keeps: the pass follows the flag is_in_check of
\* the player to move.
C11_PassFollowsFlag ==
    game_state = "UNFINISHED" =>
        \A c \in PassCoordinates :
            LET call == make_move(TheGame, c, c)
            IN  IF is_in_check[current_turn]
                THEN call.ret = "False" /\ call.game = TheGame
                ELSE call.ret = "True" /\ call.game = change_turn(TheGame)

\* on this board the General of this colour stands on the square the map
\* names, is stuck and no piece of its colour can break the check
Checkmated(jb, color) ==
    LET general == get_location_contents(jb, jb.general_locations[color])
    IN  /\ HoldsGeneral(jb, color, jb.general_locations[color])
        /\ is_general_stuck(jb, general, Opposite(color))
        /\ ~ can_friendly_break_check(jb, general).ret

\* C12: when an accepted move changes the game state to BLUE_WON the RED
\* General is stuck with no RED piece able to break the check, and when it
\* changes it to RED_WON the BLUE General is.
C12_LoserIsCheckmated ==
    \A input \in DuelInputs :
        LET call == make_move(TheGame, input[1], input[2])
        IN  (call.ret = "True" /\ call.game.game_state # game_state) =>
                Checkmated(call.game.current_board,
                           IF call.game.game_state = "BLUE_WON" THEN "RED" ELSE "BLUE")

\* C12: an accepted move makes the game BLUE_WON on a board where the BLUE
\* General is the one checkmated and the RED General is not
C12_WinnerIsCheckmated ==
    \E input \in DuelInputs :
        LET call == make_move(TheGame, input[1], input[2])
        IN  /\ call.ret = "True" /\ game_state = "UNFINISHED"
            /\ call.game.game_state = "BLUE_WON"
            /\ Checkmated(call.game.current_board, "BLUE")
            /\ ~ Checkmated(call.game.current_board, "RED")

\* the squares of the files d, e and f, those of the two palaces: the
\* squares the moves looked at start from
PalaceFiles == { sq \in CellSet : sq[2] \in {"d", "e", "f"} }

\* the moves a round trip is tried with: a square of PalaceFiles holding a
\* piece and an empty square of that piece's movement range
RoundTrips(jb) ==
    { mv \in PalaceFiles \X CellSet :
        /\ mv[1] # mv[2]
        /\ get_location_contents(jb, mv[1]) # None
        /\ get_location_contents(jb, mv[2]) = None
        /\ InSeq(mv[2], get_movement_range(jb, get_location_contents(jb, mv[1]))) }

\* C13: when move_piece(A, B, c) to an empty square B returns True and
\* move_piece(B, A, c) then returns True, the grid, every piece's recorded
\* coordinate and the General-location map are as before the first call.
C13_RoundTripRestores ==
    \A mv \in RoundTrips(current_board), c \in {"RED", "BLUE"} :
        LET there == move_piece(current_board, mv[1], mv[2], c)
        IN  there.ret =>
                LET back == move_piece(there.jb, mv[2], mv[1], c)
                IN  back.ret =>
                        /\ back.jb.board = current_board.board
                        /\ back.jb.pos = current_board.pos
                        /\ back.jb.general_locations = current_board.general_locations

\* C13: a General and another piece each make a round trip on this board
C13_RoundTripsMade ==
    \E general \in RoundTrips(current_board), other \in RoundTrips(current_board) :
        /\ is_general(get_location_contents(current_board, general[1]))
        /\ ~ is_general(get_location_contents(current_board, other[1]))
        /\ \A mv \in {general, other} :
              LET c == get_color(get_location_contents(current_board, mv[1]))
                  there == move_piece(current_board, mv[1], mv[2], c)
              IN  there.ret /\ move_piece(there.jb, mv[2], mv[1], c).ret

\* the distance between two squares in rows and in columns
RowDistance(from, to) == IF to[1] > from[1] THEN to[1] - from[1] ELSE from[1] - to[1]

ColumnDistance(from, to) ==
    IF alphabet_index[to[2]] > alphabet_index[from[2]]
    THEN alphabet_index[to[2]] - alphabet_index[from[2]]
    ELSE alphabet_index[from[2]] - alphabet_index[to[2]]

\* to is a move of a piece of this kind standing on from, on an empty board:
\* one step (orthogonal or diagonal) for General, Guard and Soldier, the
\* 1-2 and 2-3 jumps of Horse and Elephant, a row, a column or a palace
\* diagonal of up to two steps for Chariot and Cannon
GeometricMove(name, from, to) ==
    LET dr == RowDistance(from, to)
        dc == ColumnDistance(from, to)
    IN  IF name \in {"GENERAL", "GUARD", "SOLDIER"} THEN dr <= 1 /\ dc <= 1 /\ dr + dc >= 1
        ELSE IF name = "HORSE" THEN {dr, dc} = {1, 2}
        ELSE IF name = "ELEPHANT" THEN {dr, dc} = {2, 3}
        ELSE \/ dr = 0 /\ dc >= 1
             \/ dc = 0 /\ dr >= 1
             \/ dr = dc /\ dr \in {1, 2}

\* C14: for every kind, colour and square, get_movement_range() does not
\* fail and returns only coordinates of the board (row 1..10, column a..i),
\* each a geometric move of that kind from the current square.
C14_RangeStaysOnBoard ==
    LET range == piece_get_movement_range(board_piece)
    IN  /\ range.exc = ""
        /\ \A k \in 1..Len(range.ret) :
              /\ ValidKey(range.ret[k])
              /\ GeometricMove(board_piece.name, board_piece.current_pos, range.ret[k])

\* C14: a General or Guard on file a was asked for its range and the answer
\* holds the square of its row on file i
C14_WrapsToOppositeEdge ==
    /\ board_piece.name \in {"GENERAL", "GUARD"}
    /\ board_piece.current_pos[2] = "a"
    /\ movement_range.called
    /\ movement_range.ret = piece_get_movement_range(board_piece).ret
    /\ InSeq(<<board_piece.current_pos[1], "i">>, movement_range.ret)

\* the corners of the two palaces, each with the centre of its palace and
\* the corner opposite to it
PalaceCorners ==
    { <<<<1, "d">>, <<2, "e">>, <<3, "f">>>>, <<<<1, "f">>, <<2, "e">>, <<3, "d">>>>,
      <<<<3, "d">>, <<2, "e">>, <<1, "f">>>>, <<<<3, "f">>, <<2, "e">>, <<1, "d">>>>,
      <<<<8, "d">>, <<9, "e">>, <<10, "f">>>>, <<<<8, "f">>, <<9, "e">>, <<10, "d">>>>,
      <<<<10, "d">>, <<9, "e">>, <<8, "f">>>>, <<<<10, "f">>, <<9, "e">>, <<8, "d">>>> }

\* C20: the range of a Chariot or Cannon on a palace corner holds the centre
\* of that palace and the opposite corner, and on a palace centre it holds
\* the four corners of that palace.
C20_PalaceDiagonalsInRange ==
    board_piece.name \in {"CHARIOT", "CANNON"} =>
        \A corner \in PalaceCorners :
            LET range == piece_get_movement_range(board_piece).ret
            IN  /\ board_piece.current_pos = corner[1] =>
                      InSeq(corner[2], range) /\ InSeq(corner[3], range)
                /\ board_piece.current_pos = corner[2] => InSeq(corner[1], range)

\* C20: a Chariot or Cannon on a palace centre was asked for its range and
\* the answer holds no corner of the palace
C20_CentreWithoutCorners ==
    /\ board_piece.name \in {"CHARIOT", "CANNON"}
    /\ movement_range.called
    /\ movement_range.ret = piece_get_movement_range(board_piece).ret
    /\ \E corner \in PalaceCorners :
          /\ board_piece.current_pos = corner[2]
          /\ \A other \in PalaceCorners :
                other[2] = corner[2] => ~ InSeq(other[1], movement_range.ret)

\* the moves asked of a player in check: a piece of the colour on a square
\* of PalaceFiles and a square of its movement range
CheckMoves(jb, color) ==
    { mv \in PalaceFiles \X CellSet :
        /\ get_location_contents(jb, mv[1]) # None
        /\ get_color(get_location_contents(jb, mv[1])) = color
        /\ InSeq(mv[2], get_movement_range(jb, get_location_contents(jb, mv[1]))) }

\* C15: when move_piece(from, to, c) returns True on a board where
\* get_general_check_status(c) is True, get_general_check_status(c) is
\* False on the board it leaves, for the General and for any other piece.
C15_CheckIsResolved ==
    \A c \in {"RED", "BLUE"} :
        get_general_check_status(current_board, c) =>
            \A mv \in CheckMoves(current_board, c) :
                LET moved == move_piece(current_board, mv[1], mv[2], c)
                IN  moved.ret => ~ get_general_check_status(moved.jb, c)

\* C15: a player is in check and move_piece accepts a move of the General
\* and a move of another piece
C15_BothWaysOutOfCheck ==
    \E c \in {"RED", "BLUE"} :
        /\ get_general_check_status(current_board, c)
        /\ \E mv \in CheckMoves(current_board, c) :
              /\ is_general(get_location_contents(current_board, mv[1]))
              /\ move_piece(current_board, mv[1], mv[2], c).ret
        /\ \E mv \in CheckMoves(current_board, c) :
              /\ ~ is_general(get_location_contents(current_board, mv[1]))
              /\ move_piece(current_board, mv[1], mv[2], c).ret

\* the squares strictly between two squares of one row or one column
SquaresBetween(a, b) ==
    { sq \in CellSet :
        \/ /\ a[1] = b[1] /\ sq[1] = a[1]
           /\ \/ alphabet_index[a[2]] < alphabet_index[sq[2]] /\ alphabet_index[sq[2]] < alphabet_index[b[2]]
              \/ alphabet_index[b[2]] < alphabet_index[sq[2]] /\ alphabet_index[sq[2]] < alphabet_index[a[2]]
        \/ /\ a[2] = b[2] /\ sq[2] = a[2]
           /\ \/ a[1] < sq[1] /\ sq[1] < b[1]
              \/ b[1] < sq[1] /\ sq[1] < a[1] }

\* the squares of the grid that hold a piece of the other colour
EnemySquares(jb, color) ==
    { sq \in CellSet : /\ get_location_contents(jb, sq) # None
                       /\ get_color(get_location_contents(jb, sq)) # color }

\* the piece on sq has target in its raw movement range and passes the
\* hypothetical legality check for it, playing against color
Attacks(jb, sq, target, color) ==
    LET item == get_location_contents(jb, sq)
    IN  /\ InSeq(target, get_movement_range(jb, item))
        /\ hypothetical_legality_check(jb, target, item, Opposite(color)).ret

\* a Chariot of the other colour stands on sq, on the row or the column of g
ChariotFaces(jb, sq, g, color) ==
    /\ sq \in EnemySquares(jb, color)
    /\ name_has(get_location_contents(jb, sq), "CHARIOT")
    /\ sq # g
    /\ sq[1] = g[1] \/ sq[2] = g[2]

\* the moves of color that place a piece other than the General g stands
\* for on a square strictly between sq and g
BlockingMoves(jb, color, sq, g) ==
    { mv \in CellSet \X SquaresBetween(sq, g) :
        /\ mv[1] # g
        /\ get_location_contents(jb, mv[1]) # None
        /\ get_color(get_location_contents(jb, mv[1])) = color
        /\ InSeq(mv[2], get_movement_range(jb, get_location_contents(jb, mv[1]))) }

\* C16: get_general_check_status(c) is True exactly when a piece of the
\* other colour on the grid has the square of c's General in its raw
\* movement range and passes the hypothetical legality check for it; an
\* enemy Chariot on the General's row or column attacks exactly when no
\* piece stands strictly between them, and after an accepted move of c
\* onto that path the Chariot attacks no more and, with no other
\* attacker, the check status is False.
C16_CheckIsLegalAttack ==
    \A c \in {"RED", "BLUE"} :
        /\ get_general_check_status(current_board, c)
              <=> \E g \in GeneralSquares(current_board, c) :
                     \E sq \in EnemySquares(current_board, c) : Attacks(current_board, sq, g, c)
        /\ \A g \in GeneralSquares(current_board, c) :
              \A sq \in CellSet :
                 ChariotFaces(current_board, sq, g, c) =>
                    /\ Attacks(current_board, sq, g, c)
                          <=> \A b \in SquaresBetween(sq, g) :
                                 get_location_contents(current_board, b) = None
                    /\ Attacks(current_board, sq, g, c) => get_general_check_status(current_board, c)
                    /\ \A mv \in BlockingMoves(current_board, c, sq, g) :
                          LET moved == move_piece(current_board, mv[1], mv[2], c)
                          IN  moved.ret =>
                                /\ ~ Attacks(moved.jb, sq, g, c)
                                /\ (\A other \in EnemySquares(moved.jb, c) :
                                        ~ Attacks(moved.jb, other, g, c))
                                      => ~ get_general_check_status(moved.jb, c)

\* C16: get_general_check_status(c) is True although the grid holds no
\* General of colour c
C16_CheckWithoutGeneral ==
    \E c \in {"RED", "BLUE"} :
        /\ get_general_check_status(current_board, c)
        /\ GeneralSquares(current_board, c) = {}
        /\ get_location_contents(current_board, current_board.general_locations[c]) = None

\* while the grid holds the General of colour c,
\* get_general_check_status(c) is True exactly when an enemy piece on the
\* grid has its square in range and passes the hypothetical legality check
C16_LegalAttackWhileOnGrid ==
    \A c \in {"RED", "BLUE"} :
        GeneralSquares(current_board, c) # {} =>
            (get_general_check_status(current_board, c)
               <=> \E g \in GeneralSquares(current_board, c) :
                      \E sq \in EnemySquares(current_board, c) : Attacks(current_board, sq, g, c))

\* the General of this colour as the grid holds it (None when captured)
GeneralOnGrid(jb, color) ==
    IF GeneralSquares(jb, color) = {} THEN None
    ELSE get_location_contents(jb, CHOOSE sq \in GeneralSquares(jb, color) : TRUE)

\* C17: is_general_stuck(general, enemy) is True exactly when every square
\* of the General's raw range lies in the raw movement range of some enemy
\* piece (the zone of safe_general_move_check) or fails the hypothetical
\* legality check, and no square that safe_general_move_check rejects is
\* counted as an escape square.
C17_StuckByUnfilteredZone ==
    \A c \in {"RED", "BLUE"} :
        GeneralSquares(current_board, c) # {} =>
            LET general == GeneralOnGrid(current_board, c)
                general_range == get_movement_range(current_board, general)
                escapes == escape_options(current_board, general, Opposite(c))
            IN  /\ is_general_stuck(current_board, general, Opposite(c))
                      <=> \A m \in 1..Len(general_range) :
                             \/ ~ safe_general_move_check(current_board, Opposite(c), general_range[m])
                             \/ ~ hypothetical_legality_check(current_board, general_range[m],
                                                              general, c).ret
                /\ \A m \in 1..Len(escapes) :
                      safe_general_move_check(current_board, Opposite(c), escapes[m])

\* C17: is_general_stuck counts as an escape square a square that
\* safe_general_move_check rejects
C17_UnsafeEscapeSquare ==
    \E c \in {"RED", "BLUE"} :
        /\ GeneralSquares(current_board, c) # {}
        /\ \E option \in CellSet :
              /\ InSeq(option, escape_options(current_board, GeneralOnGrid(current_board, c),
                                              Opposite(c)))
              /\ ~ safe_general_move_check(current_board, Opposite(c), option)

\* C17: is_general_stuck is False although safe_general_move_check rejects
\* every square the General may legally move to
C17_NotStuckWithoutSafeSquare ==
    \E c \in {"RED", "BLUE"} :
        /\ GeneralSquares(current_board, c) # {}
        /\ ~ is_general_stuck(current_board, GeneralOnGrid(current_board, c), Opposite(c))
        /\ \A option \in CellSet :
              InSeq(option, get_movement_range(current_board, GeneralOnGrid(current_board, c)))
                 => \/ ~ safe_general_move_check(current_board, Opposite(c), option)
                    \/ ~ hypothetical_legality_check(current_board, option,
                                                     GeneralOnGrid(current_board, c), c).ret

\* the squares strictly between two squares of one row, one column or one
\* palace diagonal
Between(a, b) ==
    SquaresBetween(a, b)
    \cup { sq \in CellSet : /\ a[1] # b[1] /\ a[2] # b[2]
                            /\ 2 * sq[1] = a[1] + b[1]
                            /\ 2 * alphabet_index[sq[2]] = alphabet_index[a[2]] + alphabet_index[b[2]] }

\* the squares between a and b that hold a piece
PiecesBetween(jb, a, b) == { sq \in Between(a, b) : get_location_contents(jb, sq) # None }

\* the squares that hold a piece of this colour and this kind
KindSquares(jb, color, kind) ==
    { sq \in CellSet : /\ get_location_contents(jb, sq) # None
                       /\ get_color(get_location_contents(jb, sq)) = color
                       /\ name_has(get_location_contents(jb, sq), kind) }

\* the destination is empty or holds a piece of the other colour
EmptyOrEnemy(jb, color, move_to) ==
    \/ get_location_contents(jb, move_to) = None
    \/ get_color(get_location_contents(jb, move_to)) # color

\* the squares of the row and the column of sq, sq left out
RowAndColumn(sq) == { to \in CellSet : to # sq /\ (to[1] = sq[1] \/ to[2] = sq[2]) }

\* C18: for a Chariot of the colour to move, that colour not in check, and
\* a destination on the Chariot's row or column that is empty or holds an
\* enemy piece, pass_legality_check returns True exactly when no piece
\* stands on the squares strictly between source and destination.
C18_ChariotNeedsClearPath ==
    \A c \in {"RED", "BLUE"} :
        ~ get_general_check_status(current_board, c) =>
            \A sq \in KindSquares(current_board, c, "CHARIOT") :
                \A to \in RowAndColumn(sq) :
                    EmptyOrEnemy(current_board, c, to) =>
                        (pass_legality_check(current_board, to, get_location_contents(current_board, sq),
                                             c, FALSE).ret
                           <=> PiecesBetween(current_board, sq, to) = {})

\* C18: a Chariot whose side is not in check has a legal destination two
\* or more squares away and, on the same line, a destination beyond a
\* piece that is refused
C18_ChariotStoppedByPiece ==
    \E c \in {"RED", "BLUE"} :
        /\ ~ get_general_check_status(current_board, c)
        /\ \E sq \in KindSquares(current_board, c, "CHARIOT") :
              \E near, far \in RowAndColumn(sq) :
                 /\ near \in Between(sq, far)
                 /\ Between(sq, near) # {}
                 /\ EmptyOrEnemy(current_board, c, near) /\ EmptyOrEnemy(current_board, c, far)
                 /\ pass_legality_check(current_board, near, get_location_contents(current_board, sq),
                                        c, FALSE).ret
                 /\ get_location_contents(current_board, near) # None
                 /\ ~ pass_legality_check(current_board, far, get_location_contents(current_board, sq),
                                          c, FALSE).ret

\* a Cannon stands on the square
HoldsCannon(jb, sq) ==
    get_location_contents(jb, sq) # None /\ name_has(get_location_contents(jb, sq), "CANNON")

C19_DiagonalJump ==
    \E c \in {"RED", "BLUE"} :
        /\ ~ get_general_check_status(current_board, c)
        /\ \E sq \in KindSquares(current_board, c, "CANNON") :
              \E to \in CellSet :
                 /\ to[1] # sq[1] /\ to[2] # sq[2]
                 /\ EmptyOrEnemy(current_board, c, to)
                 /\ Cardinality(PiecesBetween(current_board, sq, to)) = 1
                 /\ pass_legality_check(current_board, to, get_location_contents(current_board, sq),
                                        c, FALSE).ret

\* C19: a Cannon whose side is not in check has, among the destinations
\* that are empty or hold an enemy piece other than a Cannon, one it may
\* jump to, one with no piece between, one with two pieces between and one
\* with a Cannon as the only piece between
C19_AllScreenCases ==
    \E c \in {"RED", "BLUE"} :
        /\ ~ get_general_check_status(current_board, c)
        /\ \E sq \in KindSquares(current_board, c, "CANNON") :
              LET targets == { to \in CellSet :
                                 /\ InSeq(to, get_movement_range(current_board,
                                                                 get_location_contents(current_board, sq)))
                                 /\ EmptyOrEnemy(current_board, c, to)
                                 /\ ~ HoldsCannon(current_board, to) }
              IN  /\ \E to \in targets :
                        pass_legality_check(current_board, to, get_location_contents(current_board, sq),
                                            c, FALSE).ret
                  /\ \E to \in targets : PiecesBetween(current_board, sq, to) = {}
                  /\ \E to \in targets : Cardinality(PiecesBetween(current_board, sq, to)) >= 2
                  /\ \E to \in targets :
                        /\ Cardinality(PiecesBetween(current_board, sq, to)) = 1
                        /\ \E screen \in PiecesBetween(current_board, sq, to) :
                              HoldsCannon(current_board, screen)

ChariotDiagonals(jb, color, sq) ==
    { to \in CellSet :
        /\ to[1] # sq[1] /\ to[2] # sq[2]
        /\ InSeq(to, get_movement_range(jb, get_location_contents(jb, sq)))
        /\ EmptyOrEnemy(jb, color, to) }

\* C21: for a Chariot of the colour to move, that colour not in check, and
\* a palace-diagonal destination of its raw range that is empty or holds
\* an enemy piece, pass_legality_check returns True whatever stands on the
\* other squares, the palace centre included.
C21_DiagonalExemptFromPath ==
    \A c \in {"RED", "BLUE"} :
        ~ get_general_check_status(current_board, c) =>
            \A sq \in KindSquares(current_board, c, "CHARIOT") :
                \A to \in ChariotDiagonals(current_board, c, sq) :
                    pass_legality_check(current_board, to, get_location_contents(current_board, sq),
                                        c, FALSE).ret

\* C21: a Chariot on a palace corner, its side not in check, is refused
\* the opposite corner because a piece stands on the palace centre
C21_DiagonalBlockedByCentre ==
    \E c \in {"RED", "BLUE"} :
        /\ ~ get_general_check_status(current_board, c)
        /\ \E sq \in KindSquares(current_board, c, "CHARIOT") :
              \E to \in ChariotDiagonals(current_board, c, sq) :
                 /\ PiecesBetween(current_board, sq, to) # {}
                 /\ ~ pass_legality_check(current_board, to, get_location_contents(current_board, sq),
                                          c, FALSE).ret

\* C21 as amended: for a Chariot of the colour to move, that colour not in
\* check, and a palace-diagonal destination of its raw range that is empty
\* or holds an enemy piece, pass_legality_check returns True exactly when
\* the palace centre between the two corners is empty.
C21_DiagonalNeedsEmptyCentre ==
    \A c \in {"RED", "BLUE"} :
        ~ get_general_check_status(current_board, c) =>
            \A sq \in KindSquares(current_board, c, "CHARIOT") :
                \A to \in ChariotDiagonals(current_board, c, sq) :
                    pass_legality_check(current_board, to, get_location_contents(current_board, sq),
                                        c, FALSE).ret
                       <=> PiecesBetween(current_board, sq, to) = {}

\* C21: a Chariot on a palace corner, its side not in check, may move to
\* the opposite corner across the empty palace centre
C21_DiagonalAcrossEmptyCentre ==
    \E c \in {"RED", "BLUE"} :
        /\ ~ get_general_check_status(current_board, c)
        /\ \E sq \in KindSquares(current_board, c, "CHARIOT") :
              \E to \in ChariotDiagonals(current_board, c, sq) :
                 /\ Between(sq, to) # {}
                 /\ PiecesBetween(current_board, sq, to) = {}
                 /\ pass_legality_check(current_board, to, get_location_contents(current_board, sq),
                                        c, FALSE).ret

\* the moves asked of the player to move: the coordinate pairs of the three
\* games, the passes left out
GameMoves ==
    { input \in WellFormedInputs \cup DuelInputs \cup CannonInputs : input[1] # input[2] }

\* C22: after every accepted make_move that is not a pass, the General of
\* the player who moved is not in check on the board the move leaves.
C22_MoverNotLeftInCheck ==
    \A input \in GameMoves :
        LET call == make_move(TheGame, input[1], input[2])
        IN  call.ret = "True" =>
               ~ get_general_check_status(call.game.current_board, current_turn)

\* C22: a player who is not in check makes a move that is accepted and
\* leaves their own General in check
C22_MoverWalksIntoCheck ==
    /\ ~ get_general_check_status(current_board, current_turn)
    /\ \E input \in GameMoves :
          LET call == make_move(TheGame, input[1], input[2])
          IN  /\ call.ret = "True"
              /\ get_general_check_status(call.game.current_board, current_turn)
              /\ call.game.is_in_check[current_turn]

\* the square as make_move is given it: "e2" for (2, "e")
CoordinateString(sq) == Str(sq[2], sq[1])

\* the calls the player to move can try: every piece of the colour with
\* every square of its movement range (anything else is refused by the
\* range rule), and a pass
TurnCalls(jb, color) ==
    { <<CoordinateString(mv[1]), CoordinateString(mv[2])>> :
        mv \in { sqs \in CellSet \X CellSet :
                   /\ get_location_contents(jb, sqs[1]) # None
                   /\ get_color(get_location_contents(jb, sqs[1])) = color
                   /\ InSeq(sqs[2], get_movement_range(jb, get_location_contents(jb, sqs[1]))) } }
    \cup { <<Str("e", 2), Str("e", 2)>> }

\* C23: in every state with the game UNFINISHED the player to move has a
\* make_move call that is accepted, also when in check with no checkmate
\* declared.
C23_PlayerToMoveCanMove ==
    game_state = "UNFINISHED" =>
        \E input \in TurnCalls(current_board, current_turn) :
            make_move(TheGame, input[1], input[2]).ret = "True"

\* C23: the game is UNFINISHED, both Generals are on the grid, the player
\* to move is in check and every call that player can try is refused
C23_NoMoveAndNoCheckmate ==
    /\ game_state = "UNFINISHED"
    /\ GeneralSquares(current_board, "RED") # {} /\ GeneralSquares(current_board, "BLUE") # {}
    /\ is_in_check[current_turn]
    /\ \A input \in TurnCalls(current_board, current_turn) :
          make_move(TheGame, input[1], input[2]).ret = "False"

\* C24: for each colour the flag is_in_check equals
\* get_general_check_status on the current board.
C24_FlagsAgreeWithBoard ==
    \A c \in {"RED", "BLUE"} :
        is_in_check[c] = get_general_check_status(current_board, c)

\* C24: both Generals are on the grid and attacked, and the flag of one
\* colour is False
C24_AttackedWithFlagDown ==
    /\ \A c \in {"RED", "BLUE"} :
          /\ GeneralSquares(current_board, c) # {}
          /\ get_general_check_status(current_board, c)
    /\ \E c \in {"RED", "BLUE"} : ~ is_in_check[c]

\* every piece stored in a grid cell has that cell as its recorded
\* coordinate; a piece has one recorded coordinate, so none is stored in
\* two cells
InSync(jb) ==
    \A sq \in CellSet :
        get_location_contents(jb, sq) # None => jb.pos[get_location_contents(jb, sq)] = sq

\* the pieces stored in the grid
PiecesOnGrid(jb) == { get_location_contents(jb, sq) : sq \in CellSet } \ {None}

\* move_piece has returned moved to a call of mover on the board before:
\* the board is in sync, and an accepted move has added no piece and
\* removed at most one, of the other colour
MoveKeepsPieces(before, moved, mover) ==
    /\ InSync(moved.jb)
    /\ moved.ret =>
          /\ PiecesOnGrid(moved.jb) \subseteq PiecesOnGrid(before)
          /\ Cardinality(PiecesOnGrid(before) \ PiecesOnGrid(moved.jb)) <= 1
          /\ \A p \in PiecesOnGrid(before) \ PiecesOnGrid(moved.jb) : get_color(p) # mover

\* C25: in every state, and on the board every move_piece call and every
\* checkmate query leaves, each piece stored in a grid cell has that cell
\* as its recorded coordinate and no piece is stored in two cells; an
\* accepted move adds no piece to the grid and removes at most one, of the
\* colour opposite to the mover.
C25_PiecesInSyncAndOnlyRemoved ==
    /\ InSync(current_board)
    /\ InSync(update_checkmate_status(current_board).jb)
    /\ \A mv \in MovePieceCalls :
          MoveKeepsPieces(current_board, move_piece(current_board, mv[1], mv[2], mv[3]), mv[3])

\* C25: pieces have been captured, and on this board move_piece accepts a
\* move that removes a piece and a move that removes none
C25_CaptureAndQuietMove ==
    /\ Cardinality(PiecesOnGrid(current_board)) < 32
    /\ \E mv \in MovePieceCalls :
          LET moved == move_piece(current_board, mv[1], mv[2], mv[3])
          IN  moved.ret /\ Cardinality(PiecesOnGrid(moved.jb)) = Cardinality(PiecesOnGrid(current_board)) - 1
    /\ \E mv \in MovePieceCalls :
          LET moved == move_piece(current_board, mv[1], mv[2], mv[3])
          IN  moved.ret /\ PiecesOnGrid(moved.jb) = PiecesOnGrid(current_board)

====
